---- MODULE Spec2Model ----
(***************************************************************************)
(* Model of graphql/executor2.go: the work Queue (NewQueue, Enqueue,       *)
(* Dequeue and its acknowledge closure), BatchExecutor.Execute with its    *)
(* worker loop (runEnqueue), and the type dispatch UnwrapBatchResult.      *)
(*                                                                         *)
(* Spec        the orchestrator, the queue and the workers, one step per   *)
(*             shared-memory access of the source.                         *)
(* FairSpec    Spec with weak fairness of every goroutine.                 *)
(* SpecUnwrap  one call of UnwrapBatchResult (Scalar, Enum, Union, Object, *)
(*             List, NonNull) or of the queue building of Execute, on      *)
(*             arguments drawn from bounded sets, with the writers and     *)
(*             maps it makes and fills.                                    *)
(***************************************************************************)
EXTENDS Integers, Sequences, FiniteSets, TLC

\* ---------------------------------------------------------------- bounds

\* Size of the worker pool. Execute starts its pool with the loop of line 99,
\* whose bound in the source is 1; the Queue is written for any pool size.
NumWorkers == 2

\* Capacity of the unit channel: make(chan *ExecutionUnit, 10000) at line 16,
\* scaled down so that a full channel is reachable.
QueueCap == 2

\* Longest flattened top-level selection list of a query.
MaxSelections == 2

\* Most units one BatchResolve call returns.
MaxChildren == 3

\* Most units created in one execution (caps the unit counter).
MaxUnits == 6

\* ---------------------------------------------------------------- processes

Main == 0
Workers == 1..NumWorkers
Procs == {Main} \cup Workers

\* The fields of the root object type (queryObject.Fields) and the names a
\* query may select at the top level.
QueryFields == {"name"}
SelectionNames == {"name", "bogus"}

RECURSIVE SeqsUpTo(_, _)
SeqsUpTo(S, n) ==
    IF n = 0 THEN {<<>>}
    ELSE LET shorter == SeqsUpTo(S, n - 1)
             longest == {t \in shorter : Len(t) = n - 1}
         IN  shorter \cup {Append(s, x) : s \in longest, x \in S}

VARIABLES
    selections,      \* Flatten(query.SelectionSet): the selected field names
    pc,              \* position of Execute (Main) and of every worker goroutine
    units,           \* per goroutine: the slice handed to Enqueue; the queue
                     \* never looks into a unit, every unit is the token 1
    pos,             \* per goroutine: position of Enqueue's range loop
    unit,            \* per worker: the unit its Dequeue returned (0: none)
    chanRef,         \* per worker: the value of q.queue read at line 37
    pendingCounter,  \* q.pendingCounter
    qQueue,          \* the field q.queue: "chan" or "nil"
    chanBuf,         \* buffer of the channel made at line 16
    chanClosed,      \* that channel has been closed
    doneCloses,      \* number of close(q.done) executed; done is closed iff > 0
    mu,              \* q.mu: 0 when free, else the worker holding it
    parentErr,       \* parent.err of the root writer is non-nil
    failCalled,      \* some BatchResolve has failed one of its destinations
    created,         \* number of execution units created so far
    result,          \* what Execute returned
    uwArgs,          \* the arguments of one call of UnwrapBatchResult
    uwRet            \* what that call returned and did to the writers

vars == <<selections, pc, units, pos, unit, chanRef, pendingCounter, qQueue,
          chanBuf, chanClosed, doneCloses, mu, parentErr, failCalled, created,
          result, uwArgs, uwRet>>

queueVars == <<pendingCounter, qQueue, chanBuf, chanClosed, doneCloses, mu>>

unwrapVars == <<uwArgs, uwRet>>

\* No call of UnwrapBatchResult is looked at.
NoCall == [state |-> "none"]

\* NewQueue (lines 14-19) and the locals of Execute before its loop.
Init ==
    /\ selections \in SeqsUpTo(SelectionNames, MaxSelections)
    /\ pc = [p \in Procs |-> IF p = Main THEN "build" ELSE "idle"]
    /\ units = [p \in Procs |-> <<>>]
    /\ pos = [p \in Procs |-> 1]
    /\ unit = [w \in Workers |-> 0]
    /\ chanRef = [w \in Workers |-> "none"]
    /\ pendingCounter = 0
    /\ qQueue = "chan"
    /\ chanBuf = <<>>
    /\ chanClosed = FALSE
    /\ doneCloses = 0
    /\ mu = 0
    /\ parentErr = FALSE
    /\ failCalled = FALSE
    /\ created = 0
    /\ result = [res |-> "none", err |-> "none"]
    /\ uwArgs = NoCall
    /\ uwRet = NoCall

\* ---------------------------------------------------------------- Execute

\* Index of the first selection whose name is no field of the query object,
\* 0 when every selection is valid (the test of lines 76-77).
RECURSIVE FirstInvalid(_, _)
FirstInvalid(sels, i) ==
    IF i > Len(sels) THEN 0
    ELSE IF sels[i] \notin QueryFields THEN i
    ELSE FirstInvalid(sels, i + 1)

\* Lines 70-95: the loop over the selections builds one unit per selection and
\* returns at the first invalid one; then the queue is made.
ExecuteBuild ==
    /\ pc[Main] = "build"
    /\ IF FirstInvalid(selections, 1) # 0
       THEN /\ result' = [res |-> "nil", err |-> "invalid selection"]
            /\ pc' = [pc EXCEPT ![Main] = "returned"]
            /\ UNCHANGED <<units, pos, created>>
       ELSE /\ units' = [units EXCEPT ![Main] = [i \in 1..Len(selections) |-> 1]]
            /\ pos' = [pos EXCEPT ![Main] = 1]
            /\ created' = Len(selections)
            /\ pc' = [pc EXCEPT ![Main] = "enqueue"]
            /\ UNCHANGED result
    /\ UNCHANGED <<selections, unit, chanRef, queueVars, parentErr, failCalled>>
    /\ UNCHANGED unwrapVars


\* Lines 116-119 without the test of parent.err.
ExecuteResultAlwaysWriters(perr) == [res |-> "writers", err |-> "nil"]

\* Lines 116-119: the error of the root writer decides what Execute returns.
ExecuteResult(perr) ==
    IF perr THEN [res |-> "nil", err |-> "parent.err"]
    ELSE [res |-> "writers", err |-> "nil"]

\* Lines 99-109: the goroutines of the pool are started after Enqueue returned.
ExecuteSpawn ==
    /\ pc[Main] = "spawn"
    /\ pc' = [p \in Procs |-> IF p = Main THEN "wait" ELSE "dequeue"]
    /\ UNCHANGED <<selections, units, pos, unit, chanRef, queueVars, parentErr,
                   failCalled, created, result>>
    /\ UNCHANGED unwrapVars

\* Lines 114-119: the receive from ClosedChan() returns once done is closed.
ExecuteWait ==
    /\ pc[Main] = "wait"
    /\ doneCloses > 0
    /\ result' = ExecuteResult(parentErr)
    /\ pc' = [pc EXCEPT ![Main] = "returned"]
    /\ UNCHANGED <<selections, units, pos, unit, chanRef, queueVars, parentErr,
                   failCalled, created>>
    /\ UNCHANGED unwrapVars

\* ---------------------------------------------------------------- runEnqueue

\* The order of runEnqueue's steps (lines 124-131): what follows BatchResolve,
\* what follows Enqueue (the deferred done() runs when the function returns)
\* and what follows done() (the worker loop of lines 102-107 calls again).
AckBeforeEnqueue ==
    [resolve |-> "ack_dec", ack |-> "enqueue", enqueue |-> "dequeue"]

runEnqueueSteps ==
    [resolve |-> "enqueue", enqueue |-> "ack_dec", ack |-> "dequeue"]

\* Where a goroutine continues when its Enqueue call returns: Execute at
\* line 99, a worker in runEnqueue.
AfterEnqueue(p) == IF p = Main THEN "spawn" ELSE runEnqueueSteps.enqueue

\* ---------------------------------------------------------------- Queue.Enqueue

\* Enqueue without the Inc of line 31: the send is not counted.
EnqueueLoopNoInc(p) ==
    /\ pc[p] = "enqueue"
    /\ pc' = [pc EXCEPT ![p] = IF pos[p] <= Len(units[p]) THEN "send"
                                ELSE AfterEnqueue(p)]
    /\ UNCHANGED <<selections, units, pos, unit, chanRef, pendingCounter,
                   qQueue, chanBuf, chanClosed, doneCloses, mu, parentErr,
                   failCalled, created, result>>
    /\ UNCHANGED unwrapVars

\* Lines 30-31: the range loop; the counter is incremented before the send.
EnqueueLoop(p) ==
    /\ pc[p] = "enqueue"
    /\ IF pos[p] <= Len(units[p])
       THEN /\ pendingCounter' = pendingCounter + 1
            /\ pc' = [pc EXCEPT ![p] = "send"]
       ELSE /\ pc' = [pc EXCEPT ![p] = AfterEnqueue(p)]
            /\ UNCHANGED pendingCounter
    /\ UNCHANGED <<selections, units, pos, unit, chanRef, qQueue, chanBuf,
                   chanClosed, doneCloses, mu, parentErr, failCalled,
                   created, result>>
    /\ UNCHANGED unwrapVars

\* The send of line 32 can proceed: a send on a nil channel and a send on a
\* full channel block, a send on a closed channel panics.
CanSend == qQueue = "chan" /\ (chanClosed \/ Len(chanBuf) < QueueCap)

\* Line 32: q.queue <- unit.
EnqueueSend(p) ==
    /\ pc[p] = "send"
    /\ CanSend
    /\ IF chanClosed
       THEN /\ pc' = [pc EXCEPT ![p] = "panic"]
            /\ UNCHANGED <<chanBuf, pos>>
       ELSE /\ chanBuf' = Append(chanBuf, units[p][pos[p]])
            /\ pos' = [pos EXCEPT ![p] = pos[p] + 1]
            /\ pc' = [pc EXCEPT ![p] = "enqueue"]
    /\ UNCHANGED <<selections, units, unit, chanRef, pendingCounter, qQueue,
                   chanClosed, doneCloses, mu, parentErr, failCalled,
                   created, result>>
    /\ UNCHANGED unwrapVars

\* ---------------------------------------------------------------- Queue.Dequeue

\* Line 37, first half: the operand q.queue is read, without the mutex.
DequeueRead(w) ==
    /\ pc[w] = "dequeue"
    /\ chanRef' = [chanRef EXCEPT ![w] = qQueue]
    /\ pc' = [pc EXCEPT ![w] = "recv"]
    /\ UNCHANGED <<selections, units, pos, unit, queueVars, parentErr,
                   failCalled, created, result>>
    /\ UNCHANGED unwrapVars

\* The receive of line 37 can proceed: a receive from a nil channel blocks for
\* ever, a receive from the channel blocks while it is empty and open.
CanReceive(w) == chanRef[w] = "chan" /\ (chanBuf # <<>> \/ chanClosed)

\* Line 37, second half, and lines 38-41: the receive on the channel read.
DequeueRecv(w) ==
    /\ pc[w] = "recv"
    /\ CanReceive(w)
    /\ IF chanBuf # <<>>
       THEN /\ unit' = [unit EXCEPT ![w] = Head(chanBuf)]
            /\ chanBuf' = Tail(chanBuf)
            /\ pc' = [pc EXCEPT ![w] = "resolve"]
       ELSE /\ pc' = [pc EXCEPT ![w] = "exited"]
            /\ UNCHANGED <<unit, chanBuf>>
    /\ chanRef' = [chanRef EXCEPT ![w] = "none"]
    /\ UNCHANGED <<selections, units, pos, pendingCounter, qQueue, chanClosed,
                   doneCloses, mu, parentErr, failCalled, created, result>>
    /\ UNCHANGED unwrapVars

\* What a field's BatchResolve may do with a unit: return some child units
\* and fail or fill the destinations of the unit.
BatchResolveOutcomes == [children : 0..MaxChildren, fails : BOOLEAN]

\* OutputWriter.Fail as Execute sees it: the error reaches the root writer,
\* whose err field is then non-nil.
FailReachesRoot(perr) == TRUE

\* Line 129: units := unit.Field.BatchResolve(unit).
Resolve(w) ==
    /\ pc[w] = "resolve"
    /\ \E o \in BatchResolveOutcomes :
        /\ created + o.children <= MaxUnits
        /\ units' = [units EXCEPT ![w] = [i \in 1..o.children |-> 1]]
        /\ created' = created + o.children
        /\ parentErr' = IF o.fails THEN FailReachesRoot(parentErr) ELSE parentErr
        /\ failCalled' = (failCalled \/ o.fails)
    /\ pos' = [pos EXCEPT ![w] = 1]
    /\ pc' = [pc EXCEPT ![w] = runEnqueueSteps.resolve]
    /\ UNCHANGED <<selections, unit, chanRef, queueVars, result>>
    /\ UNCHANGED unwrapVars

\* Line 42: q.pendingCounter.Dec(); the unit is acknowledged.
AckDec(w) ==
    /\ pc[w] = "ack_dec"
    /\ pendingCounter' = pendingCounter - 1
    /\ unit' = [unit EXCEPT ![w] = 0]
    /\ pc' = [pc EXCEPT ![w] = "ack_load"]
    /\ UNCHANGED <<selections, units, pos, chanRef, qQueue, chanBuf, chanClosed,
                   doneCloses, mu, parentErr, failCalled, created, result>>
    /\ UNCHANGED unwrapVars

\* Line 43: the counter is loaded again and compared with zero.
AckLoad(w) ==
    /\ pc[w] = "ack_load"
    /\ pc' = [pc EXCEPT ![w] = IF pendingCounter = 0 THEN "ack_lock"
                                ELSE runEnqueueSteps.ack]
    /\ UNCHANGED <<selections, units, pos, unit, chanRef, queueVars, parentErr,
                   failCalled, created, result>>
    /\ UNCHANGED unwrapVars

\* Line 44: q.mu.Lock().
AckLock(w) ==
    /\ pc[w] = "ack_lock"
    /\ mu = 0
    /\ mu' = w
    /\ pc' = [pc EXCEPT ![w] = "ack_check"]
    /\ UNCHANGED <<selections, units, pos, unit, chanRef, pendingCounter,
                   qQueue,
                   chanBuf, chanClosed, doneCloses, parentErr, failCalled,
                   created, result>>
    /\ UNCHANGED unwrapVars

\* Lines 47-49 without the test: the closure goes on to close the queue.
AckCheckMissing(w) ==
    /\ pc[w] = "ack_check"
    /\ pc' = [pc EXCEPT ![w] = "ack_close_queue"]
    /\ UNCHANGED <<selections, units, pos, unit, chanRef, queueVars, parentErr,
                   failCalled, created, result>>
    /\ UNCHANGED unwrapVars

\* Lines 47-49: a queue already set to nil has been closed by another call.
AckCheck(w) ==
    /\ pc[w] = "ack_check"
    /\ pc' = [pc EXCEPT ![w] = IF qQueue = "nil" THEN "ack_unlock"
                                ELSE "ack_close_queue"]
    /\ UNCHANGED <<selections, units, pos, unit, chanRef, queueVars, parentErr,
                   failCalled, created, result>>
    /\ UNCHANGED unwrapVars

\* Line 50: close(q.queue); closing a nil or a closed channel panics.
AckCloseQueue(w) ==
    /\ pc[w] = "ack_close_queue"
    /\ IF qQueue = "nil" \/ chanClosed
       THEN /\ pc' = [pc EXCEPT ![w] = "panic"]
            /\ UNCHANGED chanClosed
       ELSE /\ chanClosed' = TRUE
            /\ pc' = [pc EXCEPT ![w] = "ack_set_nil"]
    /\ UNCHANGED <<selections, units, pos, unit, chanRef, pendingCounter,
                   qQueue,
                   chanBuf, doneCloses, mu, parentErr, failCalled, created,
                   result>>
    /\ UNCHANGED unwrapVars

\* Line 51: q.queue = nil.
AckSetNil(w) ==
    /\ pc[w] = "ack_set_nil"
    /\ qQueue' = "nil"
    /\ pc' = [pc EXCEPT ![w] = "ack_close_done"]
    /\ UNCHANGED <<selections, units, pos, unit, chanRef, pendingCounter,
                   chanBuf,
                   chanClosed, doneCloses, mu, parentErr, failCalled,
                   created, result>>
    /\ UNCHANGED unwrapVars

\* Line 53: close(q.done); closing a closed channel panics.
AckCloseDone(w) ==
    /\ pc[w] = "ack_close_done"
    /\ doneCloses' = doneCloses + 1
    /\ pc' = [pc EXCEPT ![w] = IF doneCloses > 0 THEN "panic" ELSE "ack_unlock"]
    /\ UNCHANGED <<selections, units, pos, unit, chanRef, pendingCounter,
                   qQueue,
                   chanBuf, chanClosed, mu, parentErr, failCalled, created,
                   result>>
    /\ UNCHANGED unwrapVars

\* Line 45: the deferred q.mu.Unlock(), then the closure returns.
AckUnlock(w) ==
    /\ pc[w] = "ack_unlock"
    /\ mu' = 0
    /\ pc' = [pc EXCEPT ![w] = runEnqueueSteps.ack]
    /\ UNCHANGED <<selections, units, pos, unit, chanRef, pendingCounter,
                   qQueue,
                   chanBuf, chanClosed, doneCloses, parentErr, failCalled,
                   created, result>>
    /\ UNCHANGED unwrapVars

\* ---------------------------------------------------------------- specification

WorkerStep(w) ==
    \/ DequeueRead(w)
    \/ DequeueRecv(w)
    \/ Resolve(w)
    \/ EnqueueLoop(w)
    \/ EnqueueSend(w)
    \/ AckDec(w)
    \/ AckLoad(w)
    \/ AckLock(w)
    \/ AckCheck(w)
    \/ AckCloseQueue(w)
    \/ AckSetNil(w)
    \/ AckCloseDone(w)
    \/ AckUnlock(w)

MainStep ==
    \/ ExecuteBuild
    \/ EnqueueLoop(Main)
    \/ EnqueueSend(Main)
    \/ ExecuteSpawn
    \/ ExecuteWait

Next == MainStep \/ \E w \in Workers : WorkerStep(w)

Spec == Init /\ [][Next]_vars

\* Every goroutine that can take a step eventually takes one.
FairSpec ==
    /\ Init
    /\ [][Next]_vars
    /\ WF_vars(MainStep)
    /\ \A w \in Workers : WF_vars(WorkerStep(w))

\* ---------------------------------------------------------------- writers

\* Most sources of one call of UnwrapBatchResult.
MaxSources == 3

\* Longest flattened selection list of a nested selection set.
MaxNested == 2

\* Most units the BatchResolve of a field returns when the dispatch calls it
\* directly (lines 323 and 342).
MaxInline == 1

\* Most list sources of one call on a List type, and most elements of one
\* list source.
MaxLists == 2
MaxElems == 2

\* Most sources of one call on a Union type, and most fragments of its
\* selection set.
MaxUnionSources == 2
MaxFragments == 2

\* The heap of a call: the output writers and the maps filled into them, each
\* known by its index. A writer has its parent (0: none), its key, the number
\* of Fill and Fail calls it received and the value last filled.
Value(kind, ref, items) == [kind |-> kind, ref |-> ref, items |-> items]
Unset == Value("unset", 0, <<>>)
Null == Value("null", 0, <<>>)

\* NewObjectWriter(parent, key): a fresh writer, appended to the heap.
NewObjectWriter(h, parent, key) ==
    [h EXCEPT !.writers = Append(@, [parent |-> parent, key |-> key,
                                       fills |-> 0, fails |-> 0, value |-> Unset])]

\* The writer NewObjectWriter has just made.
LastWriter(h) == Len(h.writers)

\* OutputWriter.Fill(value).
Fill(h, d, v) ==
    [h EXCEPT !.writers[d].fills = @ + 1, !.writers[d].value = v]

\* OutputWriter.Fail(err): the writer is marked failed.
Fail(h, d) == [h EXCEPT !.writers[d].fails = @ + 1]

\* make(map[string]interface{}): a fresh empty map, appended to the heap.
NewMap(h) == [h EXCEPT !.maps = Append(@, <<>>)]

\* destMap[key] = entry.
MapPut(h, m, key, entry) ==
    [h EXCEPT !.maps[m] = [k \in DOMAIN @ \cup {key} |->
                              IF k = key THEN entry ELSE @[k]]]

\* ---------------------------------------------------------------- schema

\* A source is a pointer: nil or an object.
NilSource == [kind |-> "nil", ref |-> 0]
Object(n) == [kind |-> "obj", ref |-> n]

\* Line 255: value.Kind() == reflect.Ptr && value.IsNil().
IsNilPtr(source) == source.kind = "nil"

\* A field descriptor: its policy flags, read at lines 287, 297 and 310.
FieldOf(batch, expensive, unboundable) ==
    [Batch |-> batch, Expensive |-> expensive, Unboundable |-> unboundable]

\* The fields of the object type the model dispatches on: one field per
\* policy, and one with both the Batch and the Expensive flag.
PersonFields ==
    [friends |-> FieldOf(TRUE, FALSE, FALSE),
     posts   |-> FieldOf(FALSE, TRUE, FALSE),
     feed    |-> FieldOf(TRUE, TRUE, FALSE),
     age     |-> FieldOf(FALSE, FALSE, TRUE),
     name    |-> FieldOf(FALSE, FALSE, FALSE)]

\* An Object type; hasKey says that typ.Key is not nil.
ObjectType(hasKey) ==
    [kind |-> "Object", Name |-> "Person", Fields |-> PersonFields,
     Key |-> hasKey]

NonNullType(t) == [kind |-> "NonNull", Type |-> t]

\* A raw value a resolver returned for a Scalar or an Enum field.
Raw(v) == [kind |-> "raw", ref |-> v]

\* The raw values of the model: 1 converts, 99 does not.
RawValues == {1, 99}

\* unwrap(source): the plain value under the interface.
unwrap(source) == source.ref

\* A Scalar type; hasUnwrapper says that typ.Unwrapper is not nil.
ScalarType(hasUnwrapper) == [kind |-> "Scalar", Unwrapper |-> hasUnwrapper]

\* typ.Unwrapper(source): the err it returns is not nil for the raw value 99.
UnwrapperErr(source) == source.ref = 99

\* An Enum type; ReverseMap has the raw value 1 and not the raw value 99.
EnumType == [kind |-> "Enum", ReverseMap |-> [v \in {1} |-> "ONE"]]

\* A List type and a list source: a slice with its elements; ref is the place
\* of the list among the sources of its call.
ListType(t) == [kind |-> "List", Type |-> t]
ListSource(idx, items) == [kind |-> "list", ref |-> idx, items |-> items]

\* strconv.Itoa, for the numbers the model meets.
Itoa(n) == <<"0", "1", "2", "3", "4", "5", "6", "7", "8", "9">>[n + 1]

\* A selection of the flattened selection set; at is its place in the set
\* (the identity of the *Selection).
Selection(name, at) == [Name |-> name, Alias |-> name, at |-> at]

\* The &Selection{} of line 347.
EmptySelection == [Name |-> "", Alias |-> "", at |-> 0]

NestedNames == {"friends", "posts", "feed", "age", "name", "__typename", "bogus"}

\* A *SelectionSet: the names it selects and its fragments.
SelectionSet(names, fragments) == [Selections |-> names, Fragments |-> fragments]

\* A fragment: its type condition and its own selection set.
Fragment(on, names) == [On |-> on, SelectionSet |-> SelectionSet(names, <<>>)]

\* Flatten(selectionSet): the selection sets of the model are flat already.
Flatten(selectionSet) ==
    [i \in 1..Len(selectionSet.Selections) |->
        Selection(selectionSet.Selections[i], i)]

\* The member types of the union type of the model (the keys of typ.Types)
\* and the object type of each (typ.Types[srcType]).
Members == {"Dog", "Cat"}
MemberType(name) ==
    [kind |-> "Object", Name |-> name, Fields |-> PersonFields, Key |-> FALSE]

\* A Union type. The source ranges over two Go maps, typ.Types at line 204
\* and sourcesByType at line 220, in an order the runtime picks: Types is
\* the order of the first range, Groups the order of the second.
UnionType(types, groups) ==
    [kind |-> "Union", Name |-> "Pet", Types |-> types, Groups |-> groups]

\* A union source that is not nil: a struct with one pointer field per
\* member type; members are the fields that are not nil. Every such field of
\* the source at place idx points to the object idx.
UnionSource(idx, members) == [kind |-> "union", ref |-> idx, members |-> members]
Inner(src) == Object(src.ref)

\* ---------------------------------------------------------------- units

\* &ExecutionUnit{...}; origin tells who made it: "dispatch" for a unit the
\* dispatch returns, "inline" for one it hands to BatchResolve itself.
ExecutionUnit(field, sources, destinations, selection, origin) ==
    [Field |-> field, Sources |-> sources, Destinations |-> destinations,
     Selection |-> selection, origin |-> origin]

\* One unit with all sources and all destinations (lines 288-294, 311-317).
OneUnit(field, sources, destinations, selection) ==
    <<ExecutionUnit(field, sources, destinations, selection, "dispatch")>>

\* One unit per source, with its destination (lines 299-307).
UnitPerSource(field, sources, destinations, selection) ==
    [idx \in 1..Len(sources) |->
        ExecutionUnit(field, <<sources[idx]>>, <<destinations[idx]>>,
                      selection, "dispatch")]

\* The Batch branch splitting the sources.
BatchUnitsSplit(field, sources, destinations, selection) ==
    UnitPerSource(field, sources, destinations, selection)

\* Lines 287-296: the units of a field with the Batch flag.
BatchUnits(field, sources, destinations, selection) ==
    OneUnit(field, sources, destinations, selection)

\* The Expensive branch giving every unit the writer of the first source.
ExpensiveUnitsSameWriter(field, sources, destinations, selection) ==
    [idx \in 1..Len(sources) |->
        ExecutionUnit(field, <<sources[idx]>>, <<destinations[1]>>,
                      selection, "dispatch")]

\* The Expensive branch keeping the sources together.
ExpensiveUnitsMerged(field, sources, destinations, selection) ==
    OneUnit(field, sources, destinations, selection)

\* Lines 297-309: the units of a field with the Expensive flag.
ExpensiveUnits(field, sources, destinations, selection) ==
    UnitPerSource(field, sources, destinations, selection)

\* Lines 310-319: the unit of a field with the Unboundable flag.
UnboundableUnits(field, sources, destinations, selection) ==
    OneUnit(field, sources, destinations, selection)

\* What a BatchResolve called by the dispatch returns: n units of its own.
InlineReturn(u, n) ==
    [i \in 1..n |-> ExecutionUnit(u.Field, <<>>, <<>>, u.Selection, "BatchResolve")]

\* The branch the dispatch takes for a field: the tests of lines 287, 297
\* and 310, in that order.
Policy(field) ==
    IF field.Batch THEN "Batch"
    ELSE IF field.Expensive THEN "Expensive"
    ELSE IF field.Unboundable THEN "Unboundable"
    ELSE "Default"

\* ---------------------------------------------------------------- UnwrapBatchObjectResult

\* The loop of lines 250-264 without its continue: a nil source has its
\* destination filled with nil and is kept all the same.
RECURSIVE SplitSourcesKeepNil(_, _, _, _)
SplitSourcesKeepNil(acc, sources, destinations, idx) ==
    IF idx > Len(sources) THEN acc
    ELSE LET h0 == IF IsNilPtr(sources[idx])
                   THEN Fill(acc.h, destinations[idx], Null) ELSE acc.h
             h1 == NewMap(h0)
             destMap == Len(h1.maps)
             h2 == Fill(h1, destinations[idx], Value("map", destMap, <<>>))
         IN  SplitSourcesKeepNil(
                 [acc EXCEPT !.h = h2,
                             !.nonNilSources = Append(@, sources[idx]),
                             !.nonNilDestinations = Append(@, destMap),
                             !.originDestinations = Append(@, destinations[idx])],
                 sources, destinations, idx + 1)

\* Lines 250-264: a nil source has its destination filled with nil; any other
\* source is kept, with a fresh map filled into its destination.
RECURSIVE SplitSources(_, _, _, _)
SplitSources(acc, sources, destinations, idx) ==
    IF idx > Len(sources) THEN acc
    ELSE IF IsNilPtr(sources[idx])
    THEN SplitSources([acc EXCEPT !.h = Fill(@, destinations[idx], Null)],
                      sources, destinations, idx + 1)
    ELSE LET h1 == NewMap(acc.h)
             destMap == Len(h1.maps)
             h2 == Fill(h1, destinations[idx], Value("map", destMap, <<>>))
         IN  SplitSources(
                 [acc EXCEPT !.h = h2,
                             !.nonNilSources = Append(@, sources[idx]),
                             !.nonNilDestinations = Append(@, destMap),
                             !.originDestinations = Append(@, destinations[idx])],
                 sources, destinations, idx + 1)

\* Lines 273-275: the name of the type is put into every map.
RECURSIVE PutTypename(_, _, _, _)
PutTypename(h, nonNilDestinations, alias, idx) ==
    IF idx > Len(nonNilDestinations) THEN h
    ELSE PutTypename(MapPut(h, nonNilDestinations[idx], alias, Value("typename", 0, <<>>)),
                     nonNilDestinations, alias, idx + 1)

\* The loop of lines 279-284 with every writer made under the destination
\* of the first kept source.
RECURSIVE FillersFirstParent(_, _, _, _)
FillersFirstParent(st, acc, alias, idx) ==
    IF idx > Len(acc.nonNilDestinations) THEN st
    ELSE LET h1 == NewObjectWriter(st.h, acc.originDestinations[1], alias)
             filler == LastWriter(h1)
             h2 == MapPut(h1, acc.nonNilDestinations[idx], alias,
                          Value("writer", filler, <<>>))
         IN  FillersFirstParent([h |-> h2,
                                 destForSelection |-> Append(st.destForSelection, filler)],
                                acc, alias, idx + 1)

\* Lines 279-284 and 334-339: one new writer per kept source, under the
\* destination of that source and keyed by the alias, put into its map.
RECURSIVE Fillers(_, _, _, _)
Fillers(st, acc, alias, idx) ==
    IF idx > Len(acc.nonNilDestinations) THEN st
    ELSE LET h1 == NewObjectWriter(st.h, acc.originDestinations[idx], alias)
             filler == LastWriter(h1)
             h2 == MapPut(h1, acc.nonNilDestinations[idx], alias,
                          Value("writer", filler, <<>>))
         IN  Fillers([h |-> h2, destForSelection |-> Append(st.destForSelection, filler)],
                     acc, alias, idx + 1)

\* Lines 286-330: the units of one selection, by the flags of its field. A
\* unit of the default branch is handed to the BatchResolve of the field at
\* once, and what that returns is appended.
DispatchField(acc, field, name, destForSelection, selection) ==
    LET srcs == acc.nonNilSources
        made == CASE field.Batch ->
                       BatchUnits(name, srcs, destForSelection, selection)
                  [] ~field.Batch /\ field.Expensive ->
                       ExpensiveUnits(name, srcs, destForSelection, selection)
                  [] ~field.Batch /\ ~field.Expensive /\ field.Unboundable ->
                       UnboundableUnits(name, srcs, destForSelection, selection)
                  [] OTHER ->
                       <<ExecutionUnit(name, srcs, destForSelection, selection, "inline")>>
    IN  IF Policy(field) = "Default"
        THEN [acc EXCEPT !.made = @ \o made,
                         !.executionUnits = @ \o InlineReturn(made[1], acc.inline)]
        ELSE [acc EXCEPT !.made = @ \o made, !.executionUnits = @ \o made]

\* Lines 272-330: one round of the loop over the selections. The field of a
\* name the type does not have is nil, and reading its Batch flag at line 287
\* panics, after the writers of lines 279-284 have been made.
ObjectSelection(acc, typ, selection) ==
    IF selection.Name = "__typename"
    THEN [acc EXCEPT !.h = PutTypename(@, acc.nonNilDestinations, selection.Alias, 1),
                     !.handled = @ + 1]
    ELSE LET st == Fillers([h |-> acc.h, destForSelection |-> <<>>], acc,
                           selection.Alias, 1)
             acc1 == [acc EXCEPT !.h = st.h]
         IN  IF selection.Name \notin DOMAIN typ.Fields
             THEN [acc1 EXCEPT !.panicked = TRUE]
             ELSE [DispatchField(acc1, typ.Fields[selection.Name], selection.Name,
                                 st.destForSelection, selection)
                     EXCEPT !.handled = @ + 1]

\* Lines 271-331: the loop over the selections; a panic ends the call.
RECURSIVE ObjectSelections(_, _, _, _)
ObjectSelections(acc, typ, flattened, i) ==
    IF i > Len(flattened) \/ acc.panicked THEN acc
    ELSE ObjectSelections(ObjectSelection(acc, typ, flattened[i]), typ,
                          flattened, i + 1)

\* Lines 333-350: the unit of the key field, handed to its BatchResolve.
ObjectKey(acc, typ) ==
    IF acc.panicked \/ ~typ.Key THEN acc
    ELSE LET st == Fillers([h |-> acc.h, destForSelection |-> <<>>], acc, "__key", 1)
             u == ExecutionUnit("__key", acc.nonNilSources, st.destForSelection,
                                EmptySelection, "inline")
         IN  [acc EXCEPT !.h = st.h,
                         !.made = Append(@, u),
                         !.executionUnits = @ \o InlineReturn(u, acc.inline)]

\* UnwrapBatchObjectResult (lines 238-353). inline is the number of units a
\* BatchResolve called by the dispatch returns. The result holds the heap,
\* the units returned, every unit made, the error returned (always nil) and
\* whether the call panicked instead of returning.
UnwrapBatchObjectResult(h, sources, typ, selectionSet, destinations, inline) ==
    LET flattened == Flatten(selectionSet)
        acc0 == [h |-> h, nonNilSources |-> <<>>, nonNilDestinations |-> <<>>,
                 originDestinations |-> <<>>, executionUnits |-> <<>>,
                 made |-> <<>>, handled |-> 0, panicked |-> FALSE,
                 inline |-> inline]
        acc1 == SplitSources(acc0, sources, destinations, 1)
        acc2 == ObjectSelections(acc1, typ, flattened, 1)
        acc3 == ObjectKey(acc2, typ)
    IN  [h |-> acc3.h,
         units |-> IF acc3.panicked THEN <<>> ELSE acc3.executionUnits,
         made |-> acc3.made,
         handled |-> acc3.handled,
         err |-> "nil",
         panicked |-> acc3.panicked]

\* ---------------------------------------------------------------- UnwrapBatchResult

\* The range of lines 204-215 without the test of line 209: every member
\* whose field is not nil takes the source.
RECURSIVE UnionMembersNoTest(_, _, _, _, _, _)
UnionMembersNoTest(st, src, destination, types, t, srcType) ==
    IF t > Len(types) THEN st
    ELSE IF types[t] \notin src.members
    THEN UnionMembersNoTest(st, src, destination, types, t + 1, srcType)
    ELSE UnionMembersNoTest(
             [st EXCEPT !.sourcesByType[types[t]] = Append(@, Inner(src)),
                        !.destinationsByType[types[t]] = Append(@, destination)],
             src, destination, types, t + 1, types[t])

\* Lines 204-215: the range over typ.Types for one source, from place t on;
\* srcType is the member found so far. A second member whose field is not
\* nil ends the call with an error.
RECURSIVE UnionMembers(_, _, _, _, _, _)
UnionMembers(st, src, destination, types, t, srcType) ==
    IF t > Len(types) THEN st
    ELSE IF types[t] \notin src.members
    THEN UnionMembers(st, src, destination, types, t + 1, srcType)
    ELSE IF srcType # ""
    THEN [st EXCEPT !.err = "union type field should only return one value"]
    ELSE UnionMembers(
             [st EXCEPT !.sourcesByType[types[t]] = Append(@, Inner(src)),
                        !.destinationsByType[types[t]] = Append(@, destination)],
             src, destination, types, t + 1, types[t])

\* Lines 192-217: the loop over the sources. The destination of a nil
\* pointer is filled with nil.
RECURSIVE UnionSources(_, _, _, _, _)
UnionSources(st, sources, destinations, types, idx) ==
    IF idx > Len(sources) \/ st.err # "nil" THEN st
    ELSE IF IsNilPtr(sources[idx])
    THEN UnionSources([st EXCEPT !.h = Fill(@, destinations[idx], Null)],
                      sources, destinations, types, idx + 1)
    ELSE UnionSources(UnionMembers(st, sources[idx], destinations[idx], types, 1, ""),
                      sources, destinations, types, idx + 1)

\* Lines 222-233: the loop over the fragments for the member srcType, from
\* place f on: every fragment on srcType unwraps the sources of srcType as
\* objects, with its own selection set and the same destinations.
RECURSIVE UnionFragments(_, _, _, _)
UnionFragments(st, srcType, fragments, f) ==
    IF f > Len(fragments) \/ st.panicked THEN st
    ELSE IF fragments[f].On # srcType
    THEN UnionFragments(st, srcType, fragments, f + 1)
    ELSE LET r == UnwrapBatchObjectResult(st.h, st.sourcesByType[srcType],
                                          MemberType(srcType),
                                          fragments[f].SelectionSet,
                                          st.destinationsByType[srcType],
                                          st.inline)
         IN  UnionFragments([st EXCEPT !.h = r.h,
                                       !.execUnits = @ \o r.units,
                                       !.made = @ \o r.made,
                                       !.panicked = r.panicked],
                            srcType, fragments, f + 1)

\* Lines 219-234: the range over sourcesByType, which has a key for every
\* member that some source had.
RECURSIVE UnionGroups(_, _, _, _)
UnionGroups(st, groups, fragments, g) ==
    IF g > Len(groups) \/ st.panicked THEN st
    ELSE IF st.sourcesByType[groups[g]] = <<>>
    THEN UnionGroups(st, groups, fragments, g + 1)
    ELSE UnionGroups(UnionFragments(st, groups[g], fragments, 1),
                     groups, fragments, g + 1)

\* UnwrapBatchUnionResult (lines 188-236).
UnwrapBatchUnionResult(h, sources, typ, selectionSet, destinations, inline) ==
    LET st0 == [h |-> h,
                sourcesByType |-> [m \in Members |-> <<>>],
                destinationsByType |-> [m \in Members |-> <<>>],
                execUnits |-> <<>>, made |-> <<>>, err |-> "nil",
                panicked |-> FALSE, inline |-> inline]
        st1 == UnionSources(st0, sources, destinations, typ.Types, 1)
        st2 == UnionGroups(st1, typ.Groups, selectionSet.Fragments, 1)
    IN  IF st1.err # "nil"
        THEN [h |-> st1.h, units |-> <<>>, made |-> <<>>, handled |-> 0,
              err |-> st1.err, panicked |-> FALSE]
        ELSE [h |-> st2.h,
              units |-> IF st2.panicked THEN <<>> ELSE st2.execUnits,
              made |-> st2.made, handled |-> 0, err |-> "nil",
              panicked |-> st2.panicked]

\* What a case without units returns: the heap and the error.
NoUnits(h, err) ==
    [h |-> h, units |-> <<>>, made |-> <<>>, handled |-> 0, err |-> err,
     panicked |-> FALSE]

\* Lines 137-149: the loop of the Scalar case. Without an Unwrapper every
\* destination is filled with unwrap(source); with one, the first err that
\* is not nil is returned at once, and no destination is failed.
RECURSIVE ScalarLoop(_, _, _, _, _)
ScalarLoop(h, sources, typ, destinations, i) ==
    IF i > Len(sources) THEN NoUnits(h, "nil")
    ELSE IF ~typ.Unwrapper
    THEN ScalarLoop(Fill(h, destinations[i], Value("scalar", unwrap(sources[i]), <<>>)),
                    sources, typ, destinations, i + 1)
    ELSE IF UnwrapperErr(sources[i])
    THEN NoUnits(h, "unwrapper error")
    ELSE ScalarLoop(Fill(h, destinations[i], Value("scalar", sources[i].ref, <<>>)),
                    sources, typ, destinations, i + 1)

\* Lines 150-161: the loop of the Enum case. A raw value that ReverseMap does
\* not have fails its destination, and the error is returned at once.
RECURSIVE EnumLoop(_, _, _, _, _)
EnumLoop(h, sources, typ, destinations, i) ==
    IF i > Len(sources) THEN NoUnits(h, "nil")
    ELSE LET val == unwrap(sources[i])
         IN  IF val \notin DOMAIN typ.ReverseMap
             THEN NoUnits(Fail(h, destinations[i]), "enum is not valid")
             ELSE EnumLoop(Fill(h, destinations[i], Value("enum", val, <<>>)),
                           sources, typ, destinations, i + 1)

\* Lines 172-177: the loop over the elements of one list source. Go counts
\* idx and i from 0, the model from 1; the key of every writer is the decimal
\* of idx, the place of the list among the sources.
RECURSIVE ListElements(_, _, _, _, _)
ListElements(st, source, destination, idx, i) ==
    IF i > Len(source.items) THEN st
    ELSE LET h1 == NewObjectWriter(st.h, destination, Itoa(idx - 1))
             writer == LastWriter(h1)
         IN  ListElements(
                 [h |-> h1,
                  respList |-> Append(st.respList, writer),
                  flattenedResps |-> Append(st.flattenedResps, writer),
                  flattenedSources |-> Append(st.flattenedSources, source.items[i])],
                 source, destination, idx, i + 1)

\* Lines 169-179: the loop over the list sources; every destination is
\* filled with the writers of the elements of its list.
RECURSIVE ListSources(_, _, _, _)
ListSources(st, sources, destinations, idx) ==
    IF idx > Len(sources) THEN st
    ELSE LET st1 == ListElements([st EXCEPT !.respList = <<>>], sources[idx],
                                 destinations[idx], idx, 1)
             h2 == Fill(st1.h, destinations[idx], Value("list", 0, st1.respList))
         IN  ListSources([st1 EXCEPT !.h = h2], sources, destinations, idx + 1)

\* UnwrapBatchResult (lines 134-186): the switch on the type.
RECURSIVE UnwrapBatchResult(_, _, _, _, _, _)
UnwrapBatchResult(h, sources, typ, selectionSet, destinations, inline) ==
    CASE typ.kind = "Scalar" -> ScalarLoop(h, sources, typ, destinations, 1)
      [] typ.kind = "Enum" -> EnumLoop(h, sources, typ, destinations, 1)
      [] typ.kind = "Union" ->
           UnwrapBatchUnionResult(h, sources, typ, selectionSet, destinations, inline)
      [] typ.kind = "Object" ->
           UnwrapBatchObjectResult(h, sources, typ, selectionSet, destinations, inline)
      [] typ.kind = "List" ->
           LET st == ListSources([h |-> h, respList |-> <<>>,
                                  flattenedResps |-> <<>>,
                                  flattenedSources |-> <<>>],
                                 sources, destinations, 1)
           IN  UnwrapBatchResult(st.h, st.flattenedSources, typ.Type, selectionSet,
                                 st.flattenedResps, inline)
      [] typ.kind = "NonNull" ->
           UnwrapBatchResult(h, sources, typ.Type, selectionSet, destinations, inline)

\* ---------------------------------------------------------------- one call

\* The destinations of a call: one writer per source, made by the caller.
RECURSIVE CallerWriters(_, _)
CallerWriters(h, n) ==
    IF n = 0 THEN h ELSE NewObjectWriter(CallerWriters(h, n - 1), 0, "field")

\* The sources of a call on an object type: the source at place i is nil or
\* the object i, so that every object of a call is known by its place.
ObjectSources == UNION {[1..n -> {"nil", "obj"}] : n \in 0..MaxSources}

ObjectSourcesOf(pattern) ==
    [i \in 1..Len(pattern) |-> IF pattern[i] = "nil" THEN NilSource ELSE Object(i)]

\* The calls on an object type: any sources, nil ones among them, any
\* selection set, a type with or without a key, plain or wrapped in NonNull.
ObjectCalls ==
    [state : {"called"},
     sources : {ObjectSourcesOf(pattern) : pattern \in ObjectSources},
     typ : {ObjectType(k) : k \in BOOLEAN}
             \cup {NonNullType(ObjectType(k)) : k \in BOOLEAN},
     selectionSet : SeqsUpTo(NestedNames, MaxNested),
     fragments : {<<>>},
     inline : 0..MaxInline]

\* The calls on a Scalar or an Enum type: raw values that convert or do not.
ScalarCalls ==
    [state : {"called"},
     sources : SeqsUpTo({Raw(v) : v \in RawValues}, MaxSources),
     typ : {ScalarType(u) : u \in BOOLEAN} \cup {EnumType},
     selectionSet : {<<>>},
     fragments : {<<>>},
     inline : {0}]

\* The element at place i of the list at place idx, when the elements are
\* objects: every element of a call is known by its places.
Element(idx, i) == Object(10 * idx + i)

\* The list sources of a call on a list of objects: lists of any lengths.
ObjectLists ==
    {[idx \in 1..Len(lens) |-> ListSource(idx, [i \in 1..lens[idx] |-> Element(idx, i)])] :
        lens \in SeqsUpTo(0..MaxElems, MaxLists)}

\* The list sources of a call on a list of scalars or of enums.
RawLists ==
    {[idx \in 1..Len(ls) |-> ListSource(idx, ls[idx])] :
        ls \in SeqsUpTo(SeqsUpTo({Raw(v) : v \in RawValues}, MaxElems), MaxLists)}

\* The calls on a List type: lists of objects with any selection set, where
\* a BatchResolve called by the dispatch returns nothing, and lists of raws.
ListCalls ==
    [state : {"called"},
     sources : ObjectLists,
     typ : {ListType(ObjectType(k)) : k \in BOOLEAN},
     selectionSet : SeqsUpTo(NestedNames, MaxNested),
     fragments : {<<>>},
     inline : {0}]
    \cup
    [state : {"called"},
     sources : RawLists,
     typ : {ListType(ScalarType(u)) : u \in BOOLEAN} \cup {ListType(EnumType)},
     selectionSet : {<<>>},
     fragments : {<<>>},
     inline : {0}]

\* The sources of a call on a Union type: the source at place idx is a nil
\* pointer or a struct with any of its member fields set, none and all too.
UnionPatterns ==
    SeqsUpTo({[nil |-> TRUE, members |-> {}]}
                 \cup [nil : {FALSE}, members : SUBSET Members],
             MaxUnionSources)

UnionSourcesOf(pattern) ==
    [idx \in 1..Len(pattern) |->
        IF pattern[idx].nil THEN NilSource
        ELSE UnionSource(idx, pattern[idx].members)]

\* The orders a range over a map of the member types may take.
MemberOrders == {<<"Dog", "Cat">>, <<"Cat", "Dog">>}

\* The fragments of the selection set of a call on a Union type: any number
\* of fragments per member type, none too.
FragmentSets ==
    SeqsUpTo({Fragment(on, names) : on \in Members,
                                    names \in {<<"friends">>, <<"posts">>}},
             MaxFragments)

\* The calls on a Union type.
UnionCalls ==
    [state : {"called"},
     sources : {UnionSourcesOf(pattern) : pattern \in UnionPatterns},
     typ : {UnionType(types, groups) : types \in MemberOrders, groups \in MemberOrders},
     selectionSet : {<<>>},
     fragments : FragmentSets,
     inline : {0}]

\* The root object type of Execute (queryObject at line 69).
QueryType ==
    [kind |-> "Object", Name |-> "Query",
     Fields |-> [n \in QueryFields |-> FieldOf(FALSE, FALSE, FALSE)],
     Key |-> FALSE]

\* Lines 73-93: one round of the loop of Execute over the selections, from
\* place i on: a writer under parent, keyed by the alias, and a unit with
\* the one source and that writer. A name the root type does not have ends
\* Execute with an error.
RECURSIVE ExecuteUnits(_, _, _, _, _)
ExecuteUnits(st, typ, source, flattened, i) ==
    IF i > Len(flattened) THEN st
    ELSE IF flattened[i].Name \notin DOMAIN typ.Fields
    THEN [st EXCEPT !.units = <<>>, !.err = "invalid selection"]
    ELSE LET h1 == NewObjectWriter(st.h, st.parent, flattened[i].Alias)
             outputWriter == LastWriter(h1)
             u == ExecutionUnit(flattened[i].Name, <<source>>, <<outputWriter>>,
                                flattened[i], "Execute")
         IN  ExecuteUnits([st EXCEPT !.h = h1,
                                     !.units = Append(@, u),
                                     !.made = Append(@, u),
                                     !.handled = i],
                          typ, source, flattened, i + 1)

\* Lines 69-93 of Execute: the root writer (parent, line 72) and the queue of
\* units handed to Enqueue at line 96.
ExecuteQueue(typ, source, selectionSet) ==
    LET h1 == NewObjectWriter([writers |-> <<>>, maps |-> <<>>], 0, "")
        st == ExecuteUnits([h |-> h1, parent |-> LastWriter(h1), units |-> <<>>,
                            made |-> <<>>, handled |-> 0, err |-> "nil"],
                           typ, source, Flatten(selectionSet), 1)
    IN  [h |-> st.h, units |-> st.units, made |-> st.made, handled |-> st.handled,
         err |-> st.err, panicked |-> FALSE]

\* The calls of Execute: one source and any top-level selection set.
ExecuteCalls ==
    [state : {"execute"},
     sources : {<<Object(1)>>},
     typ : {QueryType},
     selectionSet : SeqsUpTo(SelectionNames, MaxSelections),
     fragments : {<<>>},
     inline : {0}]

\* The calls looked at.
Calls ==
    ObjectCalls \cup ScalarCalls \cup ListCalls \cup UnionCalls \cup ExecuteCalls

InitUnwrap ==
    /\ uwArgs \in Calls
    /\ uwRet = NoCall
    /\ selections = <<>>
    /\ pc = [p \in Procs |-> "idle"]
    /\ units = [p \in Procs |-> <<>>]
    /\ pos = [p \in Procs |-> 1]
    /\ unit = [w \in Workers |-> 0]
    /\ chanRef = [w \in Workers |-> "none"]
    /\ pendingCounter = 0
    /\ qQueue = "chan"
    /\ chanBuf = <<>>
    /\ chanClosed = FALSE
    /\ doneCloses = 0
    /\ mu = 0
    /\ parentErr = FALSE
    /\ failCalled = FALSE
    /\ created = 0
    /\ result = [res |-> "none", err |-> "none"]

\* The heap the call starts from and its destinations.
CallHeap(args) == CallerWriters([writers |-> <<>>, maps |-> <<>>], Len(args.sources))
CallDestinations(args) == [i \in 1..Len(args.sources) |-> i]

\* The selection set of the call: its names and its fragments.
CallSelectionSet(args) == SelectionSet(args.selectionSet, args.fragments)

\* A BatchResolve calls UnwrapBatchResult on what it resolved.
CallUnwrapBatchResult ==
    /\ uwArgs.state = "called"
    /\ uwRet.state = "none"
    /\ uwRet' = [state |-> "returned",
                 ret |-> UnwrapBatchResult(CallHeap(uwArgs), uwArgs.sources,
                                           uwArgs.typ, CallSelectionSet(uwArgs),
                                           CallDestinations(uwArgs), uwArgs.inline)]
    /\ UNCHANGED <<selections, pc, units, pos, unit, chanRef, queueVars,
                   parentErr, failCalled, created, result, uwArgs>>

\* Execute builds its queue of units.
CallExecute ==
    /\ uwArgs.state = "execute"
    /\ uwRet.state = "none"
    /\ uwRet' = [state |-> "returned",
                 ret |-> ExecuteQueue(uwArgs.typ, uwArgs.sources[1],
                                      CallSelectionSet(uwArgs))]
    /\ UNCHANGED <<selections, pc, units, pos, unit, chanRef, queueVars,
                   parentErr, failCalled, created, result, uwArgs>>

NextUnwrap == CallUnwrapBatchResult \/ CallExecute

SpecUnwrap == InitUnwrap /\ [][NextUnwrap]_vars

\* ---------------------------------------------------------------- properties

DoneFired == doneCloses > 0

\* A goroutine that cannot take its next step: a worker in the send of
\* Enqueue or in the receive of Dequeue.
Blocked(w) ==
    \/ pc[w] = "send" /\ ~CanSend
    \/ pc[w] = "recv" /\ ~CanReceive(w)

\* No unit is queued, held by a worker or about to be enqueued.
NoUnitLeft ==
    /\ chanBuf = <<>>
    /\ \A w \in Workers : unit[w] = 0
    /\ \A p \in Procs : pc[p] \notin {"build", "enqueue", "send", "resolve", "ack_dec"}

\* C1: once the done channel has been closed, no unit is left in the channel,
\* no dequeued unit is being resolved or waits for its acknowledge, and from
\* then on no step enqueues: the counter and the channel buffer stay as they are.
C1_QuiescentOnceDone ==
    /\ [](DoneFired => NoUnitLeft)
    /\ [][DoneFired => (chanBuf' = chanBuf /\ pendingCounter' = pendingCounter)]_vars

\* C1 witness: done has fired in a run in which workers enqueued child units.
C1_Witness ==
    /\ DoneFired
    /\ created > Len(selections)
    /\ pc[Main] = "returned"

\* C2: under any interleaving of the acknowledge closures, the unit channel and
\* the done channel are closed at most once (no close panics), and a closure
\* is in its closing steps only while the pending counter is zero.
C2_ClosedOnceAtZero ==
    /\ doneCloses <= 1
    /\ \A w \in Workers : pc[w] # "panic"
    /\ \A w \in Workers :
          pc[w] \in {"ack_close_queue", "ack_set_nil", "ack_close_done"}
              => pendingCounter = 0
    /\ DoneFired => pendingCounter = 0

\* C2 witness: one closure has closed both channels and still holds the mutex
\* while another closure, which also loaded zero, waits for the mutex.
C2_Witness ==
    \E w1, w2 \in Workers :
        /\ pc[w1] = "ack_unlock"
        /\ doneCloses = 1
        /\ pc[w2] = "ack_lock"

\* C3: under fair scheduling Execute eventually returns, for every query.
C3_ExecuteEventuallyReturns == <>(pc[Main] = "returned")

\* C4: a Dequeue made or pending once the unit channel is closed does not
\* block: its receive can proceed (and returns ok = false).
C4_DequeueAfterCloseReturns ==
    \A w \in Workers : (chanClosed /\ pc[w] = "recv") => CanReceive(w)

\* C5: when the acknowledge of a unit decrements the counter, every child unit
\* its BatchResolve returned has been counted and sent.
C5_ChildrenBeforeAck ==
    \A w \in Workers : pc[w] = "ack_dec" => pos[w] = Len(units[w]) + 1

\* C5 witness: a worker is about to acknowledge a unit that had the most
\* children, all of them sent.
C5_Witness ==
    \E w \in Workers :
        /\ pc[w] = "ack_dec"
        /\ Len(units[w]) = MaxChildren
        /\ pos[w] = MaxChildren + 1

\* C6: no reachable state has every worker blocked while the pending counter
\* is positive.
C6_WorkersNeverAllBlocked ==
    ~(pendingCounter > 0 /\ \A w \in Workers : Blocked(w))

CountedNotSent == Cardinality({p \in Procs : pc[p] = "send"})

\* Units a worker has received (line 37) and not yet acknowledged (line 42).
DequeuedNotAcked == Cardinality({w \in Workers : unit[w] # 0})

\* C16: in every reachable state the pending counter is the number of units
\* that were counted by Enqueue and are not yet acknowledged: the units
\* waiting to be sent, the units in the channel and the units a worker holds
\* before its acknowledge callback has run; the counter is never negative.
C16_PendingCounterCounts ==
    /\ pendingCounter = CountedNotSent + Len(chanBuf) + DequeuedNotAcked
    /\ pendingCounter >= 0

\* C16 witness: one unit waits to be sent, one is in the channel and one is
\* held by a worker, all three counted.
C16_Witness ==
    /\ CountedNotSent >= 1
    /\ Len(chanBuf) >= 1
    /\ DequeuedNotAcked >= 1
    /\ pendingCounter >= 3

\* ---------------------------------------------------------------- dispatch properties

\* The object type a call dispatches on, under its NonNull wrappers.
RECURSIVE ObjectOf(_)
ObjectOf(typ) == IF typ.kind = "NonNull" THEN ObjectOf(typ.Type) ELSE typ

\* The places of the non-nil sources, in order.
RECURSIVE KeptPlaces(_, _)
KeptPlaces(sources, i) ==
    IF i > Len(sources) THEN <<>>
    ELSE IF IsNilPtr(sources[i]) THEN KeptPlaces(sources, i + 1)
    ELSE <<i>> \o KeptPlaces(sources, i + 1)

\* The units of a sequence that carry the selection at place i.
UnitsAt(us, i) == SelectSeq(us, LAMBDA u : u.Selection.at = i)

\* The call is a call of UnwrapBatchResult on an object type, plain or
\* under NonNull.
IsObjectCall ==
    /\ uwArgs.state = "called"
    /\ uwArgs.typ.kind \in {"Object", "NonNull"}

\* The selection at place i was handled: the loop got past it.
HandledWith(i, policy) ==
    LET name == uwArgs.selectionSet[i]
        fields == ObjectOf(uwArgs.typ).Fields
    IN  /\ IsObjectCall
        /\ uwRet.state = "returned"
        /\ i <= uwRet.ret.handled
        /\ name \in DOMAIN fields
        /\ Policy(fields[name]) = policy

\* Writer d was made by the call for the k-th non-nil source: it is none of
\* the caller's writers, its parent is the destination of that source, its
\* key is the alias, and nothing was filled into it.
FreshUnder(d, k, alias) ==
    LET w == uwRet.ret.h.writers[d]
    IN  /\ d > Len(uwArgs.sources)
        /\ w.parent = CallDestinations(uwArgs)[KeptPlaces(uwArgs.sources, 1)[k]]
        /\ w.key = alias
        /\ w.fills = 0

\* C7: for a handled selection whose field takes the Batch branch, the object
\* dispatch makes exactly one unit: it carries all N non-nil sources, in order,
\* and N distinct writers made in this call, the k-th under the destination of
\* the k-th non-nil source; when the call returns, that unit is returned.
C7_BatchOneUnit ==
    uwRet.state = "returned" =>
        \A i \in 1..Len(uwArgs.selectionSet) :
            HandledWith(i, "Batch") =>
                LET us == UnitsAt(uwRet.ret.made, i)
                    kept == KeptPlaces(uwArgs.sources, 1)
                    N == Len(kept)
                IN  /\ Len(us) = 1
                    /\ us[1].Sources = [k \in 1..N |-> uwArgs.sources[kept[k]]]
                    /\ Len(us[1].Destinations) = N
                    /\ \A k \in 1..N :
                          FreshUnder(us[1].Destinations[k], k, uwArgs.selectionSet[i])
                    /\ \A k, l \in 1..N :
                          k # l => us[1].Destinations[k] # us[1].Destinations[l]
                    /\ ~uwRet.ret.panicked => UnitsAt(uwRet.ret.units, i) = us

\* C7 witness: a returned call with a Batch selection, two non-nil sources
\* and a nil one.
C7_Witness ==
    /\ uwRet.state = "returned"
    /\ ~uwRet.ret.panicked
    /\ Len(uwArgs.sources) = 3
    /\ Len(KeptPlaces(uwArgs.sources, 1)) = 2
    /\ \E i \in 1..Len(uwArgs.selectionSet) :
          HandledWith(i, "Batch") /\ Len(UnitsAt(uwRet.ret.units, i)) = 1

\* C8: for a handled selection whose field takes the Expensive branch, the
\* object dispatch makes exactly N units, the k-th with the k-th non-nil
\* source alone and the one writer made for that source; when the call
\* returns, those units are returned.
C8_ExpensiveUnitPerSource ==
    uwRet.state = "returned" =>
        \A i \in 1..Len(uwArgs.selectionSet) :
            HandledWith(i, "Expensive") =>
                LET us == UnitsAt(uwRet.ret.made, i)
                    kept == KeptPlaces(uwArgs.sources, 1)
                    N == Len(kept)
                IN  /\ Len(us) = N
                    /\ \A k \in 1..N :
                          /\ us[k].Sources = <<uwArgs.sources[kept[k]]>>
                          /\ Len(us[k].Destinations) = 1
                          /\ FreshUnder(us[k].Destinations[1], k, uwArgs.selectionSet[i])
                    /\ \A k, l \in 1..N :
                          k # l => us[k].Destinations[1] # us[l].Destinations[1]
                    /\ ~uwRet.ret.panicked => UnitsAt(uwRet.ret.units, i) = us

\* C8 witness: a returned call with an Expensive selection, two non-nil
\* sources and a nil one.
C8_Witness ==
    /\ uwRet.state = "returned"
    /\ ~uwRet.ret.panicked
    /\ Len(uwArgs.sources) = 3
    /\ Len(KeptPlaces(uwArgs.sources, 1)) = 2
    /\ \E i \in 1..Len(uwArgs.selectionSet) :
          HandledWith(i, "Expensive") /\ Len(UnitsAt(uwRet.ret.units, i)) = 2

\* The selection set of the call names a field the object type does not have.
HasInvalidSelection ==
    \E i \in 1..Len(uwArgs.selectionSet) :
        /\ IsObjectCall
        /\ uwArgs.selectionSet[i] # "__typename"
        /\ uwArgs.selectionSet[i] \notin DOMAIN ObjectOf(uwArgs.typ).Fields

\* C10: a selection of a field the nested object type does not have makes the
\* dispatch return an invalid-selection error.
C10_InvalidSelectionIsError ==
    (uwRet.state = "returned" /\ HasInvalidSelection)
        => (~uwRet.ret.panicked /\ uwRet.ret.err = "invalid selection")

\* The writers whose parent is writer d.
ChildrenOf(d) ==
    {c \in 1..Len(uwRet.ret.h.writers) : uwRet.ret.h.writers[c].parent = d}

\* C14: for an Object type, a nil source has its destination filled with
\* null once, no writer is made under that destination, and no unit the call
\* made carries a nil source or a destination under the destination of a nil
\* source; every source a unit carries is a non-nil source of the call, paired
\* with a writer under the destination of that source, in the order of the
\* call's sources.
C14_NilSourceNullNoUnit ==
    (uwRet.state = "returned" /\ IsObjectCall) =>
        LET ws == uwRet.ret.h.writers
            made == uwRet.ret.made
            dests == CallDestinations(uwArgs)
            nils == {i \in 1..Len(uwArgs.sources) : uwArgs.sources[i].kind = "nil"}
        IN  /\ \A i \in nils :
                  /\ ws[dests[i]].fills = 1
                  /\ ws[dests[i]].value = Null
                  /\ ChildrenOf(dests[i]) = {}
            /\ \A a \in 1..Len(made) :
                  /\ Len(made[a].Destinations) = Len(made[a].Sources)
                  /\ \A j \in 1..Len(made[a].Sources) :
                        /\ made[a].Sources[j].kind # "nil"
                        /\ \E i \in (1..Len(uwArgs.sources)) \ nils :
                              /\ made[a].Sources[j] = uwArgs.sources[i]
                              /\ ws[made[a].Destinations[j]].parent = dests[i]
                  /\ \A j, l \in 1..Len(made[a].Sources) :
                        j < l => made[a].Sources[j].ref < made[a].Sources[l].ref

\* C14 witness: a returned call whose second source is nil, between two
\* objects, and which made a unit that carries both objects.
C14_Witness ==
    /\ uwRet.state = "returned"
    /\ IsObjectCall
    /\ ~uwRet.ret.panicked
    /\ Len(uwArgs.sources) = 3
    /\ uwArgs.sources[2].kind = "nil"
    /\ uwArgs.sources[1].kind = "obj" /\ uwArgs.sources[3].kind = "obj"
    /\ \E a \in 1..Len(uwRet.ret.made) : Len(uwRet.ret.made[a].Sources) = 2

\* The conversion of a source fails: the Unwrapper of a Scalar returns an
\* error, or the ReverseMap of an Enum does not have the raw value.
ConversionFails(typ, source) ==
    IF typ.kind = "Scalar" THEN typ.Unwrapper /\ UnwrapperErr(source)
    ELSE unwrap(source) \notin DOMAIN typ.ReverseMap

\* The first pair of the call whose conversion fails is the pair at place i.
FirstFailureAt(i) ==
    /\ ConversionFails(uwArgs.typ, uwArgs.sources[i])
    /\ \A k \in 1..(i - 1) : ~ConversionFails(uwArgs.typ, uwArgs.sources[k])

\* C19: for a Scalar and for an Enum type, when the conversion of the pair at
\* place i is the first to fail, the call has failed destination i, returns
\* the error and no units, has filled every destination before i and has
\* neither filled nor failed any destination after i.
C19_ConversionFailureFailsDestination ==
    (/\ uwRet.state = "returned"
     /\ uwArgs.state = "called"
     /\ uwArgs.typ.kind \in {"Scalar", "Enum"})
        => \A i \in 1..Len(uwArgs.sources) :
              FirstFailureAt(i) =>
                  LET ws == uwRet.ret.h.writers
                  IN  /\ ws[i].fails >= 1
                      /\ uwRet.ret.err # "nil"
                      /\ uwRet.ret.units = <<>>
                      /\ \A k \in 1..(i - 1) : ws[k].fills = 1 /\ ws[k].fails = 0
                      /\ \A k \in (i + 1)..Len(uwArgs.sources) :
                            ws[k].fills = 0 /\ ws[k].fails = 0

\* The call is a call of UnwrapBatchResult on a List type.
IsListCall ==
    /\ uwArgs.state = "called"
    /\ uwArgs.typ.kind = "List"

\* The writers filled into the destination of the list at place idx.
RespList(idx) == uwRet.ret.h.writers[CallDestinations(uwArgs)[idx]].value.items

\* C13: for a List type, the destination of a source list of length 0 is
\* filled with an empty sequence, and a call that has source lists, all of
\* them empty, returns no execution unit, whatever the element type and the policies of
\* the selected fields of the element type.
C13_EmptyListNoUnits ==
    (uwRet.state = "returned" /\ IsListCall) =>
        LET ws == uwRet.ret.h.writers
            dests == CallDestinations(uwArgs)
            empty == {idx \in 1..Len(uwArgs.sources) : uwArgs.sources[idx].items = <<>>}
        IN  /\ \A idx \in empty :
                  /\ ws[dests[idx]].fills = 1
                  /\ ws[dests[idx]].value = Value("list", 0, <<>>)
            /\ (uwArgs.sources # <<>> /\ empty = 1..Len(uwArgs.sources))
                  => uwRet.ret.units = <<>>

\* C18: for a List type, every destination is filled once with one new writer
\* per element of its list, in element order; the writer of the element at
\* place i (counted from 0) has that destination as parent and the decimal
\* of i as key; the element type is unwrapped once with all elements and
\* their writers paired: a scalar element is filled into its own writer, an
\* object element gets a map in its own writer, and a unit that carries an
\* element carries a writer under the writer of that element.
C18_ListChildPerElement ==
    (uwRet.state = "returned" /\ IsListCall) =>
        LET ws == uwRet.ret.h.writers
            made == uwRet.ret.made
            dests == CallDestinations(uwArgs)
            elemKind == uwArgs.typ.Type.kind
        IN  /\ \A idx \in 1..Len(uwArgs.sources) :
                  LET elems == uwArgs.sources[idx].items
                      items == RespList(idx)
                  IN  /\ ws[dests[idx]].fills = 1
                      /\ ws[dests[idx]].value.kind = "list"
                      /\ Len(items) = Len(elems)
                      /\ ChildrenOf(dests[idx]) = {items[i] : i \in 1..Len(items)}
                      /\ \A i, k \in 1..Len(items) : i # k => items[i] # items[k]
                      /\ \A i \in 1..Len(items) :
                            /\ items[i] > Len(uwArgs.sources)
                            /\ ws[items[i]].parent = dests[idx]
                            /\ ws[items[i]].key = Itoa(i - 1)
                            /\ elemKind = "Object" =>
                                  /\ ws[items[i]].fills = 1
                                  /\ ws[items[i]].value.kind = "map"
                            /\ (elemKind # "Object" /\ uwRet.ret.err = "nil") =>
                                  /\ ws[items[i]].fills = 1
                                  /\ ws[items[i]].value.ref = elems[i].ref
            /\ \A a \in 1..Len(made) :
                  /\ Len(made[a].Destinations) = Len(made[a].Sources)
                  /\ \A j \in 1..Len(made[a].Sources) :
                        LET e == made[a].Sources[j].ref
                        IN  ws[made[a].Destinations[j]].parent = RespList(e \div 10)[e % 10]

\* The call is a call of UnwrapBatchResult on a Union type.
IsUnionCall ==
    /\ uwArgs.state = "called"
    /\ uwArgs.typ.kind = "Union"

\* The places of the union sources that are not nil.
UnionPlaces == {idx \in 1..Len(uwArgs.sources) : uwArgs.sources[idx].kind = "union"}

\* Some source of the call has more than one member field that is not nil.
HasAmbiguousSource ==
    \E idx \in UnionPlaces : Cardinality(uwArgs.sources[idx].members) > 1

\* C12: when a source of a union call has more than one member field that is
\* not nil, the call returns an error and no unit, and the object unwrap has
\* run for no member: no unit was made, no writer and no map were made, and
\* the destination of no non-nil source was filled or failed.
C12_UnionAmbiguityIsError ==
    (uwRet.state = "returned" /\ IsUnionCall /\ HasAmbiguousSource) =>
        LET ws == uwRet.ret.h.writers
        IN  /\ ~uwRet.ret.panicked
            /\ uwRet.ret.err # "nil"
            /\ uwRet.ret.units = <<>>
            /\ uwRet.ret.made = <<>>
            /\ Len(ws) = Len(uwArgs.sources)
            /\ uwRet.ret.h.maps = <<>>
            /\ \A idx \in UnionPlaces :
                  LET d == CallDestinations(uwArgs)[idx]
                  IN  ws[d].fills = 0 /\ ws[d].fails = 0

\* C12 witness: a returned union call whose first source has one member, with
\* a fragment on that member, and whose second source has two members.
C12_Witness ==
    /\ uwRet.state = "returned"
    /\ IsUnionCall
    /\ Len(uwArgs.sources) = 2
    /\ uwArgs.sources[1].kind = "union"
    /\ uwArgs.sources[2].kind = "union"
    /\ Cardinality(uwArgs.sources[1].members) = 1
    /\ Cardinality(uwArgs.sources[2].members) = 2
    /\ \E f \in 1..Len(uwArgs.fragments) :
          uwArgs.fragments[f].On \in uwArgs.sources[1].members
    /\ uwRet.ret.err # "nil"

\* C11: every output writer, those the caller passed and those the call
\* made, has received at most one Fill call, whatever the type of the call and
\* however many fragments the selection set has per member type.
C11_AtMostOneFill ==
    (uwRet.state = "returned" /\ uwArgs.state = "called") =>
        \A d \in 1..Len(uwRet.ret.h.writers) : uwRet.ret.h.writers[d].fills <= 1

\* C20: when a call of UnwrapBatchResult returns without an error, every
\* destination it was passed has been filled, whatever the type of the call,
\* the member fields of its union sources and the fragments of its selection
\* set.
C20_ReturnedMeansFilled ==
    (/\ uwRet.state = "returned"
     /\ uwArgs.state = "called"
     /\ ~uwRet.ret.panicked
     /\ uwRet.ret.err = "nil")
        => \A idx \in 1..Len(uwArgs.sources) :
              LET w == uwRet.ret.h.writers[CallDestinations(uwArgs)[idx]]
              IN  w.fills >= 1 /\ w.value.kind # "unset"

\* The output slot of a source that a unit carries: the root writer for the
\* source of Execute; the destination of the source for a call on an object
\* or a union type; the writer of the element for a call on a list.
SlotOf(src) ==
    IF uwArgs.state = "execute" THEN 1
    ELSE IF uwArgs.typ.kind = "List"
    THEN RespList(src.ref \div 10)[src.ref % 10]
    ELSE CallDestinations(uwArgs)[src.ref]

\* The writers the caller made before the call.
CallerMade ==
    IF uwArgs.state = "execute" THEN {} ELSE 1..Len(uwArgs.sources)

\* C15: every unit made by Execute or by the object dispatch (the Batch,
\* Expensive, Unboundable, default and key-field units) has as many
\* destinations as sources, and its destination at place j is a writer whose
\* parent is the output slot of its source at place j.
C15_SourcesPairDestinations ==
    uwRet.state = "returned" =>
        LET ws == uwRet.ret.h.writers
            made == uwRet.ret.made
        IN  \A a \in 1..Len(made) :
                /\ Len(made[a].Sources) = Len(made[a].Destinations)
                /\ \A j \in 1..Len(made[a].Sources) :
                      /\ made[a].Destinations[j] \in 1..Len(ws)
                      /\ ws[made[a].Destinations[j]].parent = SlotOf(made[a].Sources[j])

\* C15 witness: a returned call on a list of objects that made a unit with
\* the elements of two lists, three sources and three destinations.
C15_Witness ==
    /\ uwRet.state = "returned"
    /\ IsListCall
    /\ Len(uwArgs.sources) = 2
    /\ \E a \in 1..Len(uwRet.ret.made) :
          /\ Len(uwRet.ret.made[a].Sources) = 3
          /\ Len(uwRet.ret.made[a].Destinations) = 3

\* The destinations of the units made, each with its unit and its place.
MadeDestinations ==
    {<<a, j>> \in (1..Len(uwRet.ret.made)) \X (1..Len(uwRet.ret.h.writers)) :
        j <= Len(uwRet.ret.made[a].Destinations)}

\* C17: the destinations of all units made in one call are pairwise distinct
\* writers, within a unit and across units, and each was made in this call
\* and is still unfilled when the units are handed on to be enqueued.
C17_DestinationsDistinct ==
    uwRet.state = "returned" =>
        LET ws == uwRet.ret.h.writers
            made == uwRet.ret.made
        IN  /\ \A p, q \in MadeDestinations :
                  p # q => made[p[1]].Destinations[p[2]] # made[q[1]].Destinations[q[2]]
            /\ \A p \in MadeDestinations :
                  LET d == made[p[1]].Destinations[p[2]]
                  IN  /\ d \in 1..Len(ws)
                      /\ d \notin CallerMade
                      /\ ws[d].fills = 0
                      /\ ws[d].fails = 0

\* C17 witness: a returned call that made two units whose first destinations
\* are two writers under the same parent with the same key.
C17_Witness ==
    /\ uwRet.state = "returned"
    /\ \E a, b \in 1..Len(uwRet.ret.made) :
          LET ws == uwRet.ret.h.writers
              da == uwRet.ret.made[a].Destinations
              db == uwRet.ret.made[b].Destinations
          IN  /\ a # b
              /\ da # <<>> /\ db # <<>>
              /\ da[1] # db[1]
              /\ ws[da[1]].parent = ws[db[1]].parent
              /\ ws[da[1]].key = ws[db[1]].key

====
